---- MODULE Spec2Model ----
(***************************************************************************)
(* The jps optimizer of src/jps.py as a state machine.                     *)
(*                                                                         *)
(* Numbers.  Coordinates and costs are Python floats in the source; here   *)
(* they are fixed-point integers (one unit = one grid step).  A uniform    *)
(* draw random() in [0,1) is k/UDen for a raw draw k in 0..UDen-1, and a   *)
(* product with such a fraction is truncated toward zero (Trunc).          *)
(* Fractions of the configuration (alpha, x, eval_frac), davg and the      *)
(* acceptance probability are exact rationals <<numerator, denominator>>;  *)
(* a denominator 0 stands for NaN.                                         *)
(*                                                                         *)
(* Randomness.  Every operation reads its draws from a "tape" (the next    *)
(* raw draws of the generator, in the order the code consumes them) and    *)
(* reports how many it used.  With s = None the generator is seeded from   *)
(* the OS, so every tape is possible (Spec); with an integer seed the tape *)
(* is the output of the seeded generator (SpecDet).                        *)
(***************************************************************************)
EXTENDS Integers, Sequences, FiniteSets, TLC

VARIABLES
    params,     \* the params dictionary of the call (never modified)
    s,          \* the seed argument of jps
    rstate,     \* state of the global generator of module random
    npstate,    \* state of the global generator of numpy.random
    nan_check,  \* whether the installed numpy tests p for NaN in choice
    pool,       \* jps: pool
    davg,       \* jps: davg, a rational <<sum, count>>
    best,       \* jps: best
    best_cost,  \* jps: best_cost
    evals,      \* jps: evals
    i,          \* jps: index of the slot the for loop visits next (1-based)
    next,       \* jps: next      (the candidate of the last slot visit)
    next_cost,  \* jps: next_cost
    pc,         \* position of jps: start, while, for, incr, done, error
    error,      \* the exception that ended the run, "" if none
    observed,   \* history: the lowest cost the objective has returned so far
    replica,    \* a second run of jps, stepped beside the first one in SpecDet
    call        \* the last direct call of mutate or prob (SpecCalls): its
                \* arguments, the draws it read and what it returned

vars == <<params, s, rstate, npstate, nan_check, pool, davg, best, best_cost, evals, i,
          next, next_cost, pc, error, observed, replica, call>>

----------------------------------------------------------------------------
\* Bounds of the model.

\* resolution of a uniform draw: random() is one of 0/UDen .. (UDen-1)/UDen
UDen == 3
\* largest max_evals of a configuration
MaxMaxEvals == 2
\* number of states of the modelled pseudorandom generators
RngMod == 16

\* the default of the seed argument, s=None (seeds proper are 0, 1, ...)
None == -1

----------------------------------------------------------------------------
\* Arithmetic helpers.

Max(a, b) == IF a >= b THEN a ELSE b

\* n / d for d > 0, rounded toward zero (Python's int() of a true division,
\* and the rounding of a fixed-point product)
Trunc(n, d) == IF n >= 0 THEN n \div d ELSE -((-n) \div d)

RECURSIVE Pow(_, _)
Pow(b, e) == IF e <= 0 THEN 1 ELSE b * Pow(b, e - 1)

\* The element of a singleton.  { F(v) : v \in {e} } evaluates e once and
\* names its value v; below this is how the result of a call is held in a
\* local.
Only(S) == CHOOSE v \in S : TRUE

RECURSIVE SumSeq(_)
SumSeq(q) == IF q = <<>> THEN 0 ELSE Head(q) + SumSeq(Tail(q))

----------------------------------------------------------------------------
\* The objective functions the caller may pass as `cost`.

\* cost(m, params): "sphere" is the objective of jps.py's __main__ (the sum of
\* the squared coordinates), "flat" a constant objective, "offset" the
\* single-dimension objective (m0 - 1)^2.
cost(m, p) ==
    CASE p.cost = "sphere" -> SumSeq([k \in 1..Len(m) |-> m[k] * m[k]])
      [] p.cost = "flat"   -> 2
      [] OTHER             -> (m[1] - 1) * (m[1] - 1)

----------------------------------------------------------------------------
\* mutate_dim and mutate.

\* (mutate_dim_unclipped: mutate_dim without lines 76-79)
mutate_dim_unclipped(dim, hi, lo, p, k1, c, k2) ==
    LET v0 == Trunc(p.x[1] * (hi - lo) * k1, p.x[2] * UDen)
        v  == IF c = 0 THEN v0 ELSE -v0
    IN  [val |-> dim + v, used |-> 2]

\* mutate_dim(dim, hi, lo, params, u) with the three draws it may consume:
\* k1 the magnitude draw (line 70), c the sign choice (line 72), k2 the
\* resample draw (lines 77/79).  `dim is lo` / `dim is hi` compare object
\* identity: dim is always a float freshly computed by gen_member or
\* mutate_dim, never the bound object stored in params, so they are False;
\* were they True the value would be the same, lo + u * 0 or hi - u * 0.
mutate_dim(dim, hi, lo, p, k1, c, k2) ==
    LET v0 == Trunc(p.x[1] * (hi - lo) * k1, p.x[2] * UDen)
        v  == IF c = 0 THEN v0 ELSE -v0
        dim_mutated == dim + v
    IN  IF dim_mutated < lo
        THEN [val |-> lo + Trunc(k2 * (dim - lo), UDen), used |-> 3]
        ELSE IF dim_mutated > hi
        THEN [val |-> hi - Trunc(k2 * (hi - dim), UDen), used |-> 3]
        ELSE [val |-> dim_mutated, used |-> 2]

\* Entry n of a tape, 0 past its end (never read: tapes are long enough).
At(tape, n) == IF n \in DOMAIN tape THEN tape[n] ELSE 0

\* mutate(member, params, u) reading the tape from position pos + 1 on;
\* dimension k onward.  The call passes bounds[i][0] as hi and bounds[i][1]
\* as lo (line 95).
Cons(first, rest) ==
    [val |-> <<first.val>> \o rest.val, used |-> first.used + rest.used]

RECURSIVE mutate_from(_, _, _, _, _)
mutate_from(member, p, tape, k, pos) ==
    IF k > Len(member) THEN [val |-> <<>>, used |-> 0]
    ELSE Only({ Only({ Cons(md, rest) :
                         rest \in {mutate_from(member, p, tape, k + 1,
                                               pos + md.used)} }) :
                  md \in {mutate_dim(member[k], p.bounds[k][1],
                                     p.bounds[k][2], p,
                                     At(tape, pos + 1), At(tape, pos + 2) % 2,
                                     At(tape, pos + 3))} })

mutate(member, p, tape, pos) == mutate_from(member, p, tape, 1, pos)

----------------------------------------------------------------------------
\* gen_pool.

\* gen_member(): tuple(u(lo, hi) for lo, hi in bounds), one draw per
\* dimension; random.uniform(a, b) is a + (b - a) * random().
gen_member_from_zero(p, tape, pos) ==
    [k \in 1..Len(p.bounds) |->
        Trunc(p.bounds[k][2] * At(tape, pos + k), UDen)]

gen_member(p, tape, pos) ==
    [k \in 1..Len(p.bounds) |->
        p.bounds[k][1]
          + Trunc((p.bounds[k][2] - p.bounds[k][1]) * At(tape, pos + k), UDen)]

\* int(params['pool_size'] / 2) members; range() of a negative number is empty
half_size(p) == Max(0, Trunc(p.pool_size, 2))

\* mutant_pool_half: the mutants of rand[j], rand[j+1], ... in order
RECURSIVE mutants_from(_, _, _, _, _)
mutants_from(rand, p, tape, j, pos) ==
    IF j > Len(rand) THEN [val |-> <<>>, used |-> 0]
    ELSE Only({ Only({ Cons(mu, rest) :
                         rest \in {mutants_from(rand, p, tape, j + 1,
                                                pos + mu.used)} }) :
                  mu \in {mutate(rand[j], p, tape, pos)} })

\* np.mean of a list, as the rational <<sum, count>>; of the empty list NaN
np_mean(q) == <<SumSeq(q), Len(q)>>

\* lines 119-123, given both halves (mu: the mutants and the draws they took)
gen_pool_result(p, rand_pool_half, mu) ==
    [pool |-> rand_pool_half \o mu.val,
     davg |-> np_mean([j \in 1..Len(rand_pool_half) |->
                          cost(mu.val[j], p) - cost(rand_pool_half[j], p)]),
     used |-> Len(rand_pool_half) * Len(p.bounds) + mu.used]

\* line 117, given the random half
gen_pool_mutants(p, tape, rand_pool_half) ==
    Only({ gen_pool_result(p, rand_pool_half, mu) :
             mu \in {mutants_from(rand_pool_half, p, tape, 1,
                                  Len(rand_pool_half) * Len(p.bounds))} })

gen_pool(p, tape) ==
    Only({ gen_pool_mutants(p, tape, rand_pool_half) :
             rand_pool_half \in
               { [j \in 1..half_size(p) |->
                     gen_member(p, tape, (j - 1) * Len(p.bounds))] } })

\* the most draws gen_pool / one mutate can consume
GenPoolDraws(p) == 4 * half_size(p) * Len(p.bounds)
MutateDraws(p) == 3 * Len(p.bounds)

----------------------------------------------------------------------------
\* prob.

\* evals <= eval_frac * max_evals
\* (WarmUp_strict: the comparison without the equality)
WarmUp_strict(ev, p) == ev * p.eval_frac[2] < p.eval_frac[1] * p.max_evals

WarmUp(ev, p) == ev * p.eval_frac[2] <= p.eval_frac[1] * p.max_evals

\* prob(d, davg, evals, params) as a rational.  In the main phase, with
\* davg = sn/sd: alpha^e / (1 + (d*sd/sn)^2) = alpha^e * sn^2 / (sn^2 + (d*sd)^2).
\* davg is a numpy float, so d/davg follows IEEE: NaN for 0/0 and for a NaN
\* davg (denominator 0 here), infinity for d/0 (the quotient is then 0).
prob(d, dv, ev, p) ==
    LET an == Pow(p.alpha[1], ev)
        ad == Pow(p.alpha[2], ev)
    IN  IF WarmUp(ev, p) THEN <<an, ad>>
        ELSE IF dv[2] = 0 THEN <<0, 0>>
        ELSE <<an * dv[1] * dv[1],
               ad * (dv[1] * dv[1] + (d * dv[2]) * (d * dv[2]))>>

\* p and 1 - p are probabilities
ValidProbability(pr) == pr[2] > 0 /\ 0 <= pr[1] /\ pr[1] <= pr[2]

\* Whether np.random.choice raises on p.  With p out of [0, 1] one of p, 1 - p
\* is negative and every numpy raises ValueError.  With p = NaN the result
\* depends on the numpy installed: a release that tests for NaN raises
\* ValueError, an older one finds neither p < 0 nor |sum - 1| > atol true and
\* goes on to return an element.
choice_raises(pr) == IF pr[2] = 0 THEN nan_check ELSE ~ValidProbability(pr)

\* np.random.choice([1, 0], p=[p, 1-p]) for the raw draw k: 1 iff k/UDen < p
np_choice(pr, k) == IF k * pr[2] < pr[1] * UDen THEN 1 ELSE 0

\* `np.random.choice(...) is 1` (line 176): the draw is a numpy.int64 object,
\* never the int object 1, so the identity test is False for either outcome.
choice_is_1(c) == FALSE

----------------------------------------------------------------------------
\* The pseudorandom generators.  A small linear congruential generator stands
\* for the Mersenne Twister of random and of numpy.random: what matters is that
\* the draws are a function of the generator's state and the state a function
\* of the seed.

rng_next(r) == (5 * r + 3) % RngMod
rng_raw(r) == (r \div 2) % UDen

RECURSIVE rng_skip(_, _)
rng_skip(r, n) == IF n <= 0 THEN r ELSE rng_skip(rng_next(r), n - 1)

\* the next n raw draws of a generator in state r
rng_tape(r, n) == [j \in 1..n |-> rng_raw(rng_skip(r, j))]

\* random.seed(s) / np.random.seed(s): the state after seeding, given the state
\* before.  With s = None the state comes from the OS: it is not tracked, and
\* every tape is possible.
random_seed_skipped(seed, old) == old

random_seed(seed, old) == IF seed = None THEN old ELSE seed % RngMod

np_random_seed(seed, old) == IF seed = None THEN old ELSE seed % RngMod

\* the tapes of n draws a generator in state r can produce under seed `seed`
Tapes(seed, r, n) ==
    IF seed = None THEN [1..n -> 0..(UDen - 1)] ELSE {rng_tape(r, n)}

\* the generator's state after k draws
Advance(seed, r, k) == IF seed = None THEN r ELSE rng_skip(r, k)

----------------------------------------------------------------------------
\* jps, as steps on a record of its local variables.

Locals(r) == [pool |-> r.pool, davg |-> r.davg, best |-> r.best,
              best_cost |-> r.best_cost, evals |-> r.evals, i |-> r.i,
              next |-> r.next, next_cost |-> r.next_cost, pc |-> r.pc,
              error |-> r.error, observed |-> r.observed]

\* before the first statement of jps
Fresh == [pool |-> <<>>, davg |-> <<0, 0>>, best |-> <<>>, best_cost |-> 0,
          evals |-> 0, i |-> 0, next |-> <<>>, next_cost |-> 0,
          pc |-> "start", error |-> "", observed |-> 0]

Min(a, b) == IF a <= b THEN a ELSE b

RECURSIVE MinSeq(_)
MinSeq(q) == IF Len(q) = 1 THEN q[1] ELSE Min(Head(q), MinSeq(Tail(q)))

\* (first_of: the head of the unsorted list, whatever its cost)
first_of(costs) == 1

\* sorted(..., key=cost)[0]: the sort is stable, so the first member of the
\* lowest cost

first_in(costs) ==
    CHOOSE j \in 1..Len(costs) : /\ \A k \in 1..Len(costs) : costs[j] <= costs[k]
                                 /\ \A k \in 1..(j - 1) : costs[j] < costs[k]

first_cheapest(pl, p) == first_in([j \in 1..Len(pl) |-> cost(pl[j], p)])

\* lines 154-158: evals = 0, gen_pool, the initial best.  [0] of an empty
\* list raises IndexError.
jps_start_best(p, gp, b) ==
    [st |-> [Fresh EXCEPT
                !.pool = gp.pool, !.davg = gp.davg,
                !.best = gp.pool[b],
                !.best_cost = cost(gp.pool[b], p),
                !.observed = MinSeq([j \in 1..Len(gp.pool) |->
                                        cost(gp.pool[j], p)]),
                !.pc = "while"],
     used |-> gp.used]

jps_start_pool(p, gp) ==
    IF gp.pool = <<>>
    THEN [st |-> [Fresh EXCEPT !.davg = gp.davg, !.pc = "error",
                               !.error = "IndexError"],
          used |-> gp.used]
    ELSE Only({ jps_start_best(p, gp, b) : b \in {first_cheapest(gp.pool, p)} })

jps_start(p, tape) ==
    Only({ jps_start_pool(p, gp) : gp \in {gen_pool(p, tape)} })

\* line 159: the loop condition
keep_running(r, p) ==
    r.evals <= p.max_evals \/ r.best_cost < p.cost_target

jps_while(r, p) ==
    IF keep_running(r, p) THEN [r EXCEPT !.pc = "for", !.i = 1]
    ELSE [r EXCEPT !.pc = "done"]

\* after the visit of slot r.i: the next slot, or the end of the for loop
next_slot(r) ==
    IF r.i < Len(r.pool) THEN [r EXCEPT !.i = r.i + 1]
    ELSE [r EXCEPT !.pc = "incr"]

\* lines 164-166: the candidate replaces best when it costs less
\* (improves_inverted: the comparison the other way round)
improves_inverted(c, r) == c > r.best_cost

improves(c, r) == c < r.best_cost

\* lines 164-177 for the candidate nxt of cost nxt_cost, the slot's member
\* costing current_cost, and the acceptance probability pr
jps_visit_decide(r, p, nxt, nxt_cost, current_cost, pr, nk) ==
    LET r1 == [r EXCEPT !.next = nxt, !.next_cost = nxt_cost,
                        !.observed = Min(r.observed, nxt_cost)]
        r2 == IF improves(nxt_cost, r)
              THEN [r1 EXCEPT !.best = nxt, !.best_cost = nxt_cost]
              ELSE r1
    IN  IF improves(nxt_cost, r) /\ nxt_cost < p.cost_target
        THEN \* break
             [st |-> [r2 EXCEPT !.pc = "incr"], npused |-> 0]
        ELSE IF nxt_cost < current_cost
        THEN [st |-> next_slot([r2 EXCEPT !.pool[r.i] = nxt]), npused |-> 0]
        ELSE IF choice_raises(pr)
        THEN [st |-> [r2 EXCEPT !.pc = "error", !.error = "ValueError"],
              npused |-> 1]
        ELSE IF choice_is_1(np_choice(pr, nk))
        THEN [st |-> next_slot([r2 EXCEPT !.pool[r.i] = nxt]), npused |-> 1]
        ELSE [st |-> next_slot(r2), npused |-> 1]

\* lines 163-175: the costs, d and p for the candidate nxt
jps_visit_costs(r, p, nxt, nxt_cost, current_cost, nk) ==
    jps_visit_decide(r, p, nxt, nxt_cost, current_cost,
                     prob(nxt_cost - current_cost, r.davg, r.evals, p), nk)

jps_visit_candidate(r, p, nxt, nk) ==
    Only({ jps_visit_costs(r, p, nxt, c[1], c[2], nk) :
             c \in {<<cost(nxt, p), cost(r.pool[r.i], p)>>} })

\* lines 161-177: one pass of the for loop body, for slot r.i.  mu is the
\* result of mutate(current, params, u), nk the draw of numpy.random.
jps_visit_mutant(r, p, mu, nk) ==
    Only({ [st |-> o.st, used |-> mu.used, npused |-> o.npused] :
             o \in {jps_visit_candidate(r, p, mu.val, nk)} })

jps_visit(r, p, tape, nk) ==
    Only({ jps_visit_mutant(r, p, mu, nk) :
             mu \in {mutate(r.pool[r.i], p, tape, 0)} })

\* Beyond EvalsCap the value of evals no longer decides anything: both
\* comparisons that read it (line 159, line 138) have turned false for good,
\* and alpha ** evals (line 139) is only ever tested for lying in [0, 1],
\* which does not change once evals >= 1.
\* The counter saturates there to keep the state space finite.
EvalsSlack == 1
EvalsCap(p) ==
    Max(0, Max(p.max_evals, Trunc(p.eval_frac[1] * p.max_evals, p.eval_frac[2])))
      + EvalsSlack

\* line 179: evals += 1
jps_incr(r, p) ==
    [r EXCEPT !.evals = IF r.evals < EvalsCap(p) THEN r.evals + 1 ELSE r.evals,
              !.pc = "while"]

----------------------------------------------------------------------------
\* Configurations.

Targets == {0, 2}

Config(n, t, e, b, a, f, c) ==
    [pool_size |-> n, cost_target |-> t, max_evals |-> e, bounds |-> b,
     alpha |-> a, x |-> <<1, 2>>, eval_frac |-> f, cost |-> c]

\* what the documentation of params asks of a configuration
ValidConfig(p) ==
    /\ p.pool_size > 0
    /\ p.max_evals > 0
    /\ \A k \in 1..Len(p.bounds) : p.bounds[k][1] <= p.bounds[k][2]
    /\ 0 < p.alpha[1] /\ p.alpha[1] < p.alpha[2]
    /\ 0 <= p.eval_frac[1] /\ p.eval_frac[1] <= p.eval_frac[2]

\* the configurations of Spec: documented ones, small enough to explore.
\* A pool of two on one dimension, with every target and budget, under the
\* example objective and (its cost never below a target) the constant one; a
\* pool_size of 1 and an odd one; a dimension beside a degenerate one; a
\* larger pool on a narrow dimension.
Configs ==
    { Config(2, t, e, << <<-2, 2>> >>, <<1, 2>>, <<1, 2>>, "sphere") :
        t \in Targets, e \in 1..MaxMaxEvals }
    \cup
    { Config(2, 0, e, << <<-2, 2>> >>, <<1, 2>>, <<1, 2>>, "flat") :
        e \in 1..MaxMaxEvals }
    \cup
    { Config(n, 2, 1, << <<-2, 2>> >>, <<1, 2>>, <<1, 2>>, "sphere") :
        n \in {1, 3} }
    \cup
    { Config(2, 0, 1, << <<-1, 1>>, <<1, 1>> >>, <<1, 2>>, <<1, 2>>, "sphere") }
    \cup
    { Config(4, 0, 1, << <<-1, 1>> >>, <<1, 2>>, <<1, 2>>, "offset") }

----------------------------------------------------------------------------
\* The state machine.

Cur == [pool |-> pool, davg |-> davg, best |-> best, best_cost |-> best_cost,
        evals |-> evals, i |-> i, next |-> next, next_cost |-> next_cost,
        pc |-> pc, error |-> error, observed |-> observed]

Load(r) ==
    /\ pool' = r.pool
    /\ davg' = r.davg
    /\ best' = r.best
    /\ best_cost' = r.best_cost
    /\ evals' = r.evals
    /\ i' = r.i
    /\ next' = r.next
    /\ next_cost' = r.next_cost
    /\ pc' = r.pc
    /\ error' = r.error
    /\ observed' = r.observed

\* the ways one step of jps can go for a run with locals r and generator
\* states rs (random) and ns (numpy.random): a set of outcomes, one per tape
start_outcome(out, seed, r0, n0) ==
    [run |-> out.st, rstate |-> Advance(seed, r0, out.used), npstate |-> n0]

visit_outcome(out, seed, rs, ns) ==
    [run |-> out.st, rstate |-> Advance(seed, rs, out.used),
     npstate |-> Advance(seed, ns, out.npused)]

jps_step_start(p, seed, r0, n0) ==
    { start_outcome(out, seed, r0, n0) :
        out \in { jps_start(p, tape) :
                    tape \in Tapes(seed, r0, GenPoolDraws(p)) } }

jps_step(r, p, seed, rs, ns) ==
    CASE r.pc = "start" ->
           UNION { jps_step_start(p, seed, g[1], g[2]) :
                     g \in {<<random_seed(seed, rs), np_random_seed(seed, ns)>>} }
      [] r.pc = "while" ->
           { [run |-> jps_while(r, p), rstate |-> rs, npstate |-> ns] }
      [] r.pc = "for" ->
           { visit_outcome(out, seed, rs, ns) :
               out \in { jps_visit(r, p, tn[1], tn[2][1]) :
                           tn \in Tapes(seed, rs, MutateDraws(p))
                                    \X Tapes(seed, ns, 1) } }
      [] r.pc = "incr" ->
           { [run |-> jps_incr(r, p), rstate |-> rs, npstate |-> ns] }
      [] OTHER -> {}

Step(at) ==
    /\ pc = at
    /\ \E o \in jps_step(Cur, params, s, rstate, npstate) :
          /\ Load(o.run)
          /\ rstate' = o.rstate
          /\ npstate' = o.npstate
    /\ UNCHANGED <<params, s, nan_check, call>>

\* lines 151-158: seed the generators, build the pool, find the initial best
JpsStart == Step("start")
\* line 159: leave the loop or start a generation
WhileCheck == Step("while")
\* lines 161-177: visit one slot
SlotVisit == Step("for")
\* line 179: count the generation
EndGeneration == Step("incr")

\* the second run takes the step its own position asks for
ReplicaStep ==
    LET outs == jps_step(replica.run, params, s, replica.rstate, replica.npstate)
    IN  IF outs = {} THEN UNCHANGED replica ELSE replica' \in outs

FreshReplica(rs, ns) == [run |-> Fresh, rstate |-> rs, npstate |-> ns]

IsFresh ==
    /\ pool = Fresh.pool /\ davg = Fresh.davg /\ best = Fresh.best
    /\ best_cost = Fresh.best_cost /\ evals = Fresh.evals /\ i = Fresh.i
    /\ next = Fresh.next /\ next_cost = Fresh.next_cost /\ pc = Fresh.pc
    /\ error = Fresh.error /\ observed = Fresh.observed

\* no function has been called on its own
NoCall == [fn |-> "none"]

\* One run of jps(cost, params), the seed left at None as the repository's
\* caller does (jps_using_energy_fitness.py line 29).
Init ==
    /\ params \in Configs
    /\ s = None
    /\ rstate = 0
    /\ npstate = 0
    /\ nan_check \in BOOLEAN
    /\ IsFresh
    /\ call = NoCall
    /\ replica = FreshReplica(0, 0)

RunStart == JpsStart /\ UNCHANGED replica
RunWhile == WhileCheck /\ UNCHANGED replica
RunVisit == SlotVisit /\ UNCHANGED replica
RunIncr == EndGeneration /\ UNCHANGED replica

Next == RunStart \/ RunWhile \/ RunVisit \/ RunIncr

Spec == Init /\ [][Next]_vars

\* The loop of jps waits for nothing: once the pool is built, the statement
\* the run stands at is executed.  The runs followed to their end are those
\* on one dimension with max_evals = 1.
InitFair == Init /\ Len(params.bounds) = 1 /\ params.max_evals = 1

FairSpec ==
    /\ InitFair /\ [][Next]_vars
    /\ WF_vars(RunWhile) /\ WF_vars(RunVisit) /\ WF_vars(RunIncr)

----------------------------------------------------------------------------
\* Two runs of jps(cost, params, s) with the same integer seed, each in a
\* process whose generators are in some state of their own before the call.

\* largest seed
MaxSeed == 2

PriorStates == {0, RngMod - 1}

InitDet ==
    /\ params \in Configs
    /\ s \in 0..MaxSeed
    /\ rstate \in PriorStates
    /\ npstate \in PriorStates
    /\ nan_check \in BOOLEAN
    /\ IsFresh
    /\ call = NoCall
    /\ replica \in { FreshReplica(rs, ns) : rs \in PriorStates, ns \in PriorStates }

NextDet ==
    \/ JpsStart /\ ReplicaStep
    \/ WhileCheck /\ ReplicaStep
    \/ SlotVisit /\ ReplicaStep
    \/ EndGeneration /\ ReplicaStep

SpecDet == InitDet /\ [][NextDet]_vars

----------------------------------------------------------------------------
\* Runs of jps on any configuration, documented or not.

AnyConfigs ==
    Configs \cup
    { Config(n, 0, e, b, a, f, "sphere") :
        n \in {-2, 0, 2}, e \in {-1, 0, 1},
        b \in { << <<-2, 2>> >>, << <<1, -1>> >> },
        a \in { <<0, 1>>, <<1, 2>>, <<1, 1>>, <<2, 1>> },
        f \in { <<-1, 2>>, <<1, 2>>, <<3, 2>> } }

InitCfg ==
    /\ params \in AnyConfigs
    /\ s = None
    /\ rstate = 0
    /\ npstate = 0
    /\ nan_check \in BOOLEAN
    /\ IsFresh
    /\ call = NoCall
    /\ replica = FreshReplica(0, 0)

SpecCfg == InitCfg /\ [][Next]_vars

----------------------------------------------------------------------------
\* mutate and prob called on their own, on every argument of a small domain.

\* the members of one dimension that lie within the bounds of p
Members(p) == { <<v>> : v \in p.bounds[1][1]..p.bounds[1][2] }

\* mutate(member, params, u) on the draws of tape
MutateCall ==
    /\ \E member \in Members(params) :
       \E tape \in Tapes(None, 0, MutateDraws(params)) :
          call' = [fn |-> "mutate", member |-> member, tape |-> tape,
                   out |-> mutate(member, params, tape, 0).val]
    /\ UNCHANGED <<params, s, rstate, npstate, nan_check, pool, davg, best,
                   best_cost, evals, i, next, next_cost, pc, error, observed,
                   replica>>

\* largest cost difference handed to prob
MaxDelta == 2

\* prob(d, davg, evals, params), davg the mean of one or two differences
ProbCall ==
    /\ \E d \in (-MaxDelta)..MaxDelta :
       \E dv \in ((-MaxDelta)..MaxDelta) \X (1..2) :
       \E ev \in 0..EvalsCap(params) :
          call' = [fn |-> "prob", d |-> d, davg |-> dv, evals |-> ev,
                   out |-> prob(d, dv, ev, params)]
    /\ UNCHANGED <<params, s, rstate, npstate, nan_check, pool, davg, best,
                   best_cost, evals, i, next, next_cost, pc, error, observed,
                   replica>>

InitCalls ==
    /\ params \in { p \in Configs : Len(p.bounds) = 1 }
    /\ s = None
    /\ rstate = 0
    /\ npstate = 0
    /\ nan_check = TRUE
    /\ IsFresh
    /\ replica = FreshReplica(0, 0)
    /\ call = NoCall

NextCalls == MutateCall \/ ProbCall

SpecCalls == InitCalls /\ [][NextCalls]_vars

----------------------------------------------------------------------------
\* Properties.

Started == pc \notin {"start"}
HasPool == pool # <<>>

InBounds(m, p) ==
    \A k \in 1..Len(m) : p.bounds[k][1] <= m[k] /\ m[k] <= p.bounds[k][2]

\* C1: every run that has built its pool eventually leaves RUNNING (returning
\* the best pair, or at least ending), also when the best cost is below
\* cost_target.
JpsTerminates == (pc # "start") ~> (pc \in {"done", "error"})

\* C2: at a generation boundary (the loop test after a completed generation)
\* the driver returns exactly when evals >= max_evals or
\* best_cost <= cost_target, and starts another generation otherwise.
TerminationRule ==
    [][pc = "while" /\ evals >= 1 =>
         IF evals >= params.max_evals \/ best_cost <= params.cost_target
         THEN pc' = "done" ELSE pc' = "for"]_vars

\* C3: every coordinate of every member of the pool, of the last candidate
\* and of best lies within its bounds, inclusive.
BoundsInvariant ==
    /\ \A j \in 1..Len(pool) : InBounds(pool[j], params)
    /\ InBounds(next, params)
    /\ InBounds(best, params)

\* a candidate was clipped onto its upper bound during a generation
BoundsWitness ==
    /\ pc = "for" /\ i > 1
    /\ next # <<>> /\ next[1] = params.bounds[1][2]
    /\ pool[i - 1][1] < next[1]

\* C4: best_cost changes only in a slot visit, and then to a strictly smaller
\* value.
MonotonicImprovement ==
    [][Started =>
         \/ best_cost' = best_cost
         \/ pc = "for" /\ best_cost' < best_cost]_vars

\* best was replaced by a candidate that is in no slot (the visit broke off)
ImprovedWitness ==
    /\ HasPool /\ next # <<>> /\ best = next /\ best_cost = next_cost
    /\ \A j \in 1..Len(pool) : cost(pool[j], params) > best_cost

\* C5: two runs with the same seed, configuration and objective agree on
\* every local of jps at every step, hence on the pool and on the result.
Determinism == Cur = replica.run

\* both runs have returned after at least one generation, having started from
\* different generator states
DeterminismWitness ==
    /\ pc = "done" /\ replica.run.pc = "done" /\ evals >= 1
    /\ \E j \in 1..Len(pool) : pool[j] # pool[1]

\* C6: in a dimension with lo = hi every member of the pool, the last
\* candidate and best hold that value.
Degenerate(k) == params.bounds[k][1] = params.bounds[k][2]

DegenerateBounds ==
    \A k \in 1..Len(params.bounds) :
        Degenerate(k) =>
            /\ \A j \in 1..Len(pool) : pool[j][k] = params.bounds[k][1]
            /\ next # <<>> => next[k] = params.bounds[k][1]
            /\ best # <<>> => best[k] = params.bounds[k][1]

\* a generation has replaced a slot while a degenerate dimension stayed put
DegenerateWitness ==
    /\ \E k \in 1..Len(params.bounds) : Degenerate(k)
    /\ evals >= 1 /\ pc = "for" /\ i > 1
    /\ pool[i - 1] = next

\* C7: when every bootstrap delta is zero (davg = 0) the run raises no error
\* over the acceptance probability.
ZeroDeltas == davg[2] > 0 /\ davg[1] = 0 /\ (davg[2] = 1 \/ params.cost = "flat")

CalibrationGuard == ZeroDeltas => error # "ValueError"

\* C8: the pool holds exactly pool_size members once it is built.
PoolSize == (Started /\ pc # "error") => Len(pool) = params.pool_size

\* C9: a configuration outside the documented domain is rejected before any
\* member is generated, mutated or evaluated: such a run never has a pool
\* or a candidate.
ConfigRejected ==
    ~ValidConfig(params) => pool = <<>> /\ next = <<>> /\ pc \in {"start", "error"}

\* C10: best_cost is the cost of best, the lowest cost the objective has
\* returned so far, and no member of the pool costs less.
BestIsLowest ==
    HasPool =>
        /\ best_cost = cost(best, params)
        /\ best_cost = observed
        /\ \A j \in 1..Len(pool) : best_cost <= cost(pool[j], params)

\* a candidate has become best and the pool has moved on since
BestWitness ==
    /\ HasPool /\ evals >= 1 /\ next # <<>>
    /\ best_cost < next_cost
    /\ \A j \in 1..Len(pool) : pool[j] # best

\* The one dimension of a direct call of mutate: its bounds in the documented
\* order (lower, upper), the magnitude x * (hi - lo) * U of the first draw,
\* and the candidate value + signed v, the sign being the one the second draw
\* selects at line 72.
CallLo == params.bounds[1][1]
CallHi == params.bounds[1][2]

Magnitude ==
    Trunc(params.x[1] * (CallHi - CallLo) * call.tape[1], params.x[2] * UDen)

Candidate ==
    call.member[1] + (IF call.tape[2] % 2 = 0 THEN -Magnitude ELSE Magnitude)

\* C11: when value + signed v lies within [lo, hi], mutate returns exactly
\* that candidate (no resampling).
MutationStep ==
    (call.fn = "mutate" /\ CallLo <= Candidate /\ Candidate <= CallHi)
        => call.out[1] = Candidate

\* C12: when value + signed v < lo, mutate returns lo + U' * (value - lo),
\* which lies in [lo, value]; when it is > hi, mutate returns
\* hi - U' * (hi - value), which lies in [value, hi].  U' is the third draw.
MutationClip ==
    call.fn = "mutate" =>
        /\ Candidate < CallLo =>
              /\ call.out[1] = CallLo + Trunc(call.tape[3] * (call.member[1] - CallLo), UDen)
              /\ CallLo <= call.out[1] /\ call.out[1] <= call.member[1]
        /\ Candidate > CallHi =>
              /\ call.out[1] = CallHi - Trunc(call.tape[3] * (CallHi - call.member[1]), UDen)
              /\ call.member[1] <= call.out[1] /\ call.out[1] <= CallHi

\* C13: in every slot visit, when the candidate costs strictly less than the
\* member of the slot, the slot holds the candidate after the visit, also
\* when the candidate became best with a cost below cost_target.
GreedyAcceptance ==
    [][(pc = "for" /\ next_cost' < cost(pool[i], params))
          => pool'[i] = next']_vars

\* lines 174-175: the acceptance probability of the visit being made
AcceptanceP == prob(next_cost' - cost(pool[i], params), davg, evals, params)

\* C14: in a slot visit whose candidate does not cost strictly less than the
\* member of the slot, the slot takes the candidate exactly when the
\* acceptance draw of probability p succeeds.  Whatever the draw, it succeeds
\* when p = 1 and fails when p = 0: the slot then holds the candidate,
\* respectively keeps its member.
AnnealedAcceptance ==
    [][(pc = "for" /\ pc' # "error" /\ next_cost' >= cost(pool[i], params))
          => /\ (\A k \in 0..(UDen - 1) : np_choice(AcceptanceP, k) = 1)
                  => pool'[i] = next'
             /\ (\A k \in 0..(UDen - 1) : np_choice(AcceptanceP, k) = 0)
                  => pool'[i] = pool[i]]_vars

\* C15: evals is 0 before the first visit and grows by exactly one in each
\* slot visit, so by the number of slots over a generation.
EvaluationCounter ==
    [][/\ pc = "start" => evals = 0
       /\ (pc = "for" /\ pc' # "error") => evals' = evals + 1]_vars

\* A direct call of prob is in the warm-up phase: evals <= eval_frac * max_evals.
CallWarmUp ==
    call.evals * params.eval_frac[2] <= params.eval_frac[1] * params.max_evals

\* alpha ** evals of a direct call of prob, as numerator and denominator
CallDecay == <<Pow(params.alpha[1], call.evals), Pow(params.alpha[2], call.evals)>>

\* C16: prob returns alpha ** evals in the warm-up phase, whatever d and davg,
\* and alpha ** evals / (1 + (d / davg) ** 2) otherwise; with davg # 0 the
\* result lies in [0, 1] and does not exceed alpha ** evals.
AcceptanceSchedule ==
    (call.fn = "prob" /\ call.davg[1] # 0) =>
        LET sn == call.davg[1]
            sd == call.davg[2]
            d  == call.d
        IN  /\ call.out[2] > 0
            /\ CallWarmUp =>
                  call.out[1] * CallDecay[2] = CallDecay[1] * call.out[2]
            /\ ~CallWarmUp =>
                  call.out[1] * CallDecay[2] * (sn * sn + d * d * sd * sd)
                      = call.out[2] * CallDecay[1] * sn * sn
            /\ 0 <= call.out[1] /\ call.out[1] <= call.out[2]
            /\ call.out[1] * CallDecay[2] <= CallDecay[1] * call.out[2]

\* a call in the main phase, on a negative davg, whose result is below
\* alpha ** evals
ScheduleWitness ==
    /\ call.fn = "prob" /\ call.davg[1] < 0 /\ call.d # 0 /\ ~CallWarmUp
    /\ call.out[1] * CallDecay[2] < CallDecay[1] * call.out[2]

====
